---- MODULE Spec2Model ----
(***************************************************************************)
(* Morphological extrema (skimage/morphology/extrema.py): saturated        *)
(* addition / subtraction of a constant, h-maxima, h-minima, local maxima  *)
(* and local minima of integer images, on top of grey-level                *)
(* reconstruction.                                                         *)
(*                                                                         *)
(* An array is a record [dtype, shape, data]: data is the row-major        *)
(* sequence of the samples, dtype = [kind, signed, bits] is a NumPy        *)
(* fixed-width integer type (kind "i") or float64 (kind "f").  Integer     *)
(* arithmetic on arrays is done modulo the width of the result type, as    *)
(* NumPy does.  The samples of a floating-point image are whole multiples  *)
(* of one unit, a power of two far above the resolution of the type, so    *)
(* that sums and differences are exact; they are written as the number of  *)
(* units.                                                                  *)
(***************************************************************************)
EXTENDS Integers, Sequences, FiniteSets, TLC

VARIABLES img, selem, op, arg, out, mem, ret, calls

vars == <<img, selem, op, arg, out, mem, ret, calls>>

(***************************************************************************)
(* Bounds of the model.                                                    *)
(***************************************************************************)
\* width in bits of the element types of the enumerated images
Bits == 2
\* number of columns of the enumerated one-row images
NCols == 2

(***************************************************************************)
(* NumPy element types.                                                    *)
(***************************************************************************)
RECURSIVE Pow2(_)
Pow2(n) == IF n = 0 THEN 1 ELSE 2 * Pow2(n - 1)

DType(s, b) == [kind |-> "i", signed |-> s, bits |-> b]

Float64 == [kind |-> "f", signed |-> TRUE, bits |-> 64]

\* np.issubdtype(dtype, 'half'): the type is a floating-point type
IsFloating(dt) == dt.kind = "f"

\* np.iinfo(dtype).max
iinfo_max(dt) == IF dt.signed THEN Pow2(dt.bits - 1) - 1 ELSE Pow2(dt.bits) - 1

\* np.iinfo(dtype).min
iinfo_min(dt) == IF dt.signed THEN 0 - Pow2(dt.bits - 1) ELSE 0

\* storing the integer v in an element of type dt keeps it modulo 2^bits;
\* a floating-point element holds every whole number of units of the model
Cast(dt, v) ==
    IF IsFloating(dt) THEN v
    ELSE ((v - iinfo_min(dt)) % Pow2(dt.bits)) + iinfo_min(dt)

\* np.promote_types
promote_types(a, b) ==
    IF IsFloating(a) \/ IsFloating(b) THEN Float64
    ELSE IF a.signed = b.signed
    THEN DType(a.signed, IF a.bits >= b.bits THEN a.bits ELSE b.bits)
    ELSE LET s == IF a.signed THEN a ELSE b
             u == IF a.signed THEN b ELSE a
         IN IF u.bits < s.bits THEN s ELSE DType(TRUE, 2 * u.bits)

\* Result type of (array of type dt) op (Python int c >= 0): the scalar takes
\* part by its value only.  A value the array type holds keeps the array
\* type; a larger one counts as the unsigned type of the same width.
result_type(dt, c) ==
    IF c <= iinfo_max(dt) THEN dt ELSE promote_types(dt, DType(FALSE, dt.bits))

(***************************************************************************)
(* Arrays.                                                                 *)
(***************************************************************************)
Array(dt, shape, data) == [dtype |-> dt, shape |-> shape, data |-> data]

NPixels(shape) == shape[1] * shape[2]

RowOf(i, shape) == ((i - 1) \div shape[2]) + 1
ColOf(i, shape) == ((i - 1) % shape[2]) + 1

\* The value an operation hands back: an array, or a raised ValueError.
Return(a) == [raised |-> FALSE, value |-> a]
NoArray == Array(DType(FALSE, 8), <<0, 0>>, <<>>)
ValueError == [raised |-> TRUE, value |-> NoArray]

(***************************************************************************)
(* Saturated arithmetic.                                                   *)
(***************************************************************************)
\* _add_constant_clip without the line that sets the overflowed elements
\* to the type's maximum
add_constant_noclip(a, const_value) ==
    LET rt == result_type(a.dtype, const_value)
    IN IF const_value > iinfo_max(a.dtype) - iinfo_min(a.dtype)
       THEN ValueError
       ELSE Return(Array(rt, a.shape,
                [i \in DOMAIN a.data |-> Cast(rt, a.data[i] + const_value)]))

\* _add_constant_clip with the constant checked against type_max instead
\* of type_max - type_min
add_constant_guard_max(a, const_value) ==
    LET max_dtype == iinfo_max(a.dtype)
        rt == result_type(a.dtype, const_value)
        result == [i \in DOMAIN a.data |-> Cast(rt, a.data[i] + const_value)]
    IN IF const_value > max_dtype
       THEN ValueError
       ELSE Return(Array(rt, a.shape,
                [i \in DOMAIN a.data |->
                    IF a.data[i] > max_dtype - const_value
                    THEN max_dtype ELSE result[i]]))

\* _add_constant_clip with the clip mask taken from the sum instead of
\* from the input
add_constant_mask_of_result(a, const_value) ==
    LET max_dtype == iinfo_max(a.dtype)
        min_dtype == iinfo_min(a.dtype)
        rt == result_type(a.dtype, const_value)
        result == [i \in DOMAIN a.data |-> Cast(rt, a.data[i] + const_value)]
    IN IF const_value > (max_dtype - min_dtype)
       THEN ValueError
       ELSE Return(Array(rt, a.shape,
                [i \in DOMAIN a.data |->
                    IF result[i] > max_dtype - const_value
                    THEN max_dtype ELSE result[i]]))

\* np.iinfo raises ValueError for a type that is not an integer type
_add_constant_clip(a, const_value) ==
    LET max_dtype == iinfo_max(a.dtype)
        min_dtype == iinfo_min(a.dtype)
        rt == result_type(a.dtype, const_value)
        result == [i \in DOMAIN a.data |-> Cast(rt, a.data[i] + const_value)]
    IN IF IsFloating(a.dtype)
       THEN ValueError
       ELSE IF const_value > (max_dtype - min_dtype)
       THEN ValueError
       ELSE Return(Array(rt, a.shape,
                [i \in DOMAIN a.data |->
                    IF a.data[i] > max_dtype - const_value
                    THEN max_dtype ELSE result[i]]))

\* _subtract_constant_clip with the comparison of the clip mask off by one
subtract_constant_offbyone(a, const_value) ==
    LET max_dtype == iinfo_max(a.dtype)
        min_dtype == iinfo_min(a.dtype)
        rt == result_type(a.dtype, const_value)
        result == [i \in DOMAIN a.data |-> Cast(rt, a.data[i] - const_value)]
    IN IF const_value > (max_dtype - min_dtype)
       THEN ValueError
       ELSE Return(Array(rt, a.shape,
                [i \in DOMAIN a.data |->
                    IF a.data[i] < (const_value + min_dtype) - 1
                    THEN min_dtype ELSE result[i]]))

\* np.iinfo raises ValueError for a type that is not an integer type
_subtract_constant_clip(a, const_value) ==
    LET max_dtype == iinfo_max(a.dtype)
        min_dtype == iinfo_min(a.dtype)
        rt == result_type(a.dtype, const_value)
        result == [i \in DOMAIN a.data |-> Cast(rt, a.data[i] - const_value)]
    IN IF IsFloating(a.dtype)
       THEN ValueError
       ELSE IF const_value > (max_dtype - min_dtype)
       THEN ValueError
       ELSE Return(Array(rt, a.shape,
                [i \in DOMAIN a.data |->
                    IF a.data[i] < (const_value + min_dtype)
                    THEN min_dtype ELSE result[i]]))

(***************************************************************************)
(* Neighbourhoods.  selem = None stands for the default 3x3 square.        *)
(***************************************************************************)
None == [given |-> FALSE, arr |-> <<>>]
Selem(arr) == [given |-> TRUE, arr |-> arr]

Square3 == << <<1, 1, 1>>, <<1, 1, 1>>, <<1, 1, 1>> >>
Cross3 == << <<0, 1, 0>>, <<1, 1, 1>>, <<0, 1, 0>> >>

\* the neighbourhood array in use
SelemArray(se) == IF se.given THEN se.arr ELSE Square3

\* pixel j is a neighbour of pixel i in an image of this shape: the offset
\* from i to j is an entry 1 of the neighbourhood, the centre aside
IsNeighbour(i, j, shape, se) ==
    LET dr == RowOf(j, shape) - RowOf(i, shape)
        dc == ColOf(j, shape) - ColOf(i, shape)
    IN /\ j # i
       /\ dr \in -1..1
       /\ dc \in -1..1
       /\ SelemArray(se)[dr + 2][dc + 2] = 1

Neighbours(i, shape, se) ==
    {j \in 1..NPixels(shape) : IsNeighbour(i, j, shape, se)}

SetMax(S) == CHOOSE x \in S : \A y \in S : y <= x
SetMin(S) == CHOOSE x \in S : \A y \in S : x <= y
Min2(a, b) == IF a <= b THEN a ELSE b
Max2(a, b) == IF a >= b THEN a ELSE b

(***************************************************************************)
(* Grey-level reconstruction (module greyreconstruct): the least fixed     *)
(* point of the dilation of the seed clamped under the mask, the greatest  *)
(* fixed point of the erosion of the seed clamped above the mask.          *)
(***************************************************************************)
\* one elementary dilation of r, clamped under mask
DilateUnder(r, mask, nb) ==
    [i \in DOMAIN r |->
        Min2(mask[i], SetMax({r[i]} \cup {r[j] : j \in nb[i]}))]

\* one elementary erosion of r, clamped above mask
ErodeAbove(r, mask, nb) ==
    [i \in DOMAIN r |->
        Max2(mask[i], SetMin({r[i]} \cup {r[j] : j \in nb[i]}))]

RECURSIVE IterateUntilStable(_, _, _, _)
IterateUntilStable(r, mask, nb, method) ==
    LET next == IF method = "dilation" THEN DilateUnder(r, mask, nb)
                                       ELSE ErodeAbove(r, mask, nb)
    IN IF next = r THEN r ELSE IterateUntilStable(next, mask, nb, method)

reconstruction(seed, mask, method, se) ==
    LET nb == [i \in DOMAIN mask.data |-> Neighbours(i, mask.shape, se)]
    IN Array(promote_types(seed.dtype, mask.dtype), mask.shape,
             IterateUntilStable(seed.data, mask.data, nb, method))

(***************************************************************************)
(* Elementwise array arithmetic and comparison.                            *)
(***************************************************************************)
\* a - b for two arrays of one shape, in the promoted type
ArraySub(a, b) ==
    LET rt == promote_types(a.dtype, b.dtype)
    IN Array(rt, a.shape,
             [i \in DOMAIN a.data |-> Cast(rt, a.data[i] - b.data[i])])

UInt8 == DType(FALSE, 8)

\* result_img = np.zeros(shape); result_img[residue >= t] = 1; astype(uint8)
ThresholdMask(residue, t) ==
    Array(UInt8, residue.shape,
          [i \in DOMAIN residue.data |-> IF residue.data[i] >= t THEN 1 ELSE 0])

\* The same with the threshold h - 10 * np.finfo(dtype).resolution of a
\* floating-point image: ten times the resolution is more than nothing and
\* less than one unit, so the residues at or above it are those above h - 1.
FloatThresholdMask(residue, h) ==
    Array(UInt8, residue.shape,
          [i \in DOMAIN residue.data |->
              IF residue.data[i] > h - 1 THEN 1 ELSE 0])

\* img - h, img + h of a floating-point image: plain arithmetic
FloatShift(image, h) ==
    Array(image.dtype, image.shape,
          [i \in DOMAIN image.data |-> image.data[i] + h])

(***************************************************************************)
(* The smallest difference of grey levels.                                 *)
(***************************************************************************)
\* np.unique: the distinct values, ascending
RECURSIVE SortedSeq(_)
SortedSeq(S) ==
    IF S = {} THEN <<>>
    ELSE LET lo == SetMin(S) IN <<lo>> \o SortedSeq(S \ {lo})

\* a NumPy scalar: one value of an element type
Scalar(dt, v) == Array(dt, <<>>, <<v>>)

\* The differences img_vec[1:] - img_vec[:-1] are taken in the element type
\* of the image; np.min of no differences raises ValueError.
find_min_diff(image) ==
    LET img_vec == SortedSeq({image.data[i] : i \in DOMAIN image.data})
        diffs == [k \in 1..(Len(img_vec) - 1) |->
                     Cast(image.dtype, img_vec[k + 1] - img_vec[k])]
    IN IF Len(img_vec) < 2
       THEN ValueError
       ELSE Return(Scalar(image.dtype,
                          SetMin({diffs[k] : k \in DOMAIN diffs})))

(***************************************************************************)
(* The extrema.  Floating-point images are shifted by plain arithmetic and *)
(* compared with a tolerance; integer images take the else branch of the   *)
(* type test: saturated shift, resolution = 0.                             *)
(***************************************************************************)
resolution == 0

\* h_maxima marking every pixel of positive residue, whatever h
h_maxima_positive_residue(image, h, se) ==
    LET shifted == _subtract_constant_clip(image, h)
    IN IF shifted.raised THEN ValueError
       ELSE LET shifted_img == shifted.value
                rec_img == reconstruction(shifted_img, image, "dilation", se)
                residue_img == ArraySub(image, rec_img)
            IN Return(ThresholdMask(residue_img, 1))

\* h_maxima with the residue compared to half of h
h_maxima_half_height(image, h, se) ==
    LET shifted == _subtract_constant_clip(image, h)
    IN IF shifted.raised THEN ValueError
       ELSE LET shifted_img == shifted.value
                rec_img == reconstruction(shifted_img, image, "dilation", se)
                residue_img == ArraySub(image, rec_img)
            IN Return(ThresholdMask(residue_img, h \div 2))

\* h_maxima with the residue compared strictly
h_maxima_strict(image, h, se) ==
    LET shifted == _subtract_constant_clip(image, h)
    IN IF shifted.raised THEN ValueError
       ELSE LET shifted_img == shifted.value
                rec_img == reconstruction(shifted_img, image, "dilation", se)
                residue_img == ArraySub(image, rec_img)
            IN Return(ThresholdMask(residue_img, h - 10 * resolution + 1))

h_maxima(image, h, se) ==
    IF IsFloating(image.dtype)
    THEN LET shifted_img == FloatShift(image, 0 - h)
             rec_img == reconstruction(shifted_img, image, "dilation", se)
             residue_img == ArraySub(image, rec_img)
         IN Return(FloatThresholdMask(residue_img, h))
    ELSE
    LET shifted == _subtract_constant_clip(image, h)
    IN IF shifted.raised THEN ValueError
       ELSE LET shifted_img == shifted.value
                rec_img == reconstruction(shifted_img, image, "dilation", se)
                residue_img == ArraySub(image, rec_img)
            IN Return(ThresholdMask(residue_img, h - 10 * resolution))

\* h_minima with the plain (wrapping) addition of the floating-point branch
\* used for integers too
h_minima_unclipped(image, h, se) ==
    LET shifted_img == Array(image.dtype, image.shape,
            [i \in DOMAIN image.data |-> Cast(image.dtype, image.data[i] + h)])
        rec_img == reconstruction(shifted_img, image, "erosion", se)
        residue_img == ArraySub(rec_img, image)
    IN Return(ThresholdMask(residue_img, h - 10 * resolution))

\* h_minima with the residue taken as in h_maxima
h_minima_residue_swapped(image, h, se) ==
    LET shifted == _add_constant_clip(image, h)
    IN IF shifted.raised THEN ValueError
       ELSE LET shifted_img == shifted.value
                rec_img == reconstruction(shifted_img, image, "erosion", se)
                residue_img == ArraySub(image, rec_img)
            IN Return(ThresholdMask(residue_img, h - 10 * resolution))

h_minima(image, h, se) ==
    IF IsFloating(image.dtype)
    THEN LET shifted_img == FloatShift(image, h)
             rec_img == reconstruction(shifted_img, image, "erosion", se)
             residue_img == ArraySub(rec_img, image)
         IN Return(FloatThresholdMask(residue_img, h))
    ELSE
    LET shifted == _add_constant_clip(image, h)
    IN IF shifted.raised THEN ValueError
       ELSE LET shifted_img == shifted.value
                rec_img == reconstruction(shifted_img, image, "erosion", se)
                residue_img == ArraySub(rec_img, image)
            IN Return(ThresholdMask(residue_img, h - 10 * resolution))

\* local_maxima calling h_minima
local_maxima_calls_h_minima(image, se) == h_minima(image, 1, se)

\* h is the smallest grey-level difference of a floating-point image, 1 of
\* an integer image; an error of find_min_diff goes up to the caller
local_maxima(image, se) ==
    IF IsFloating(image.dtype)
    THEN LET h == find_min_diff(image)
         IN IF h.raised THEN ValueError
            ELSE h_maxima(image, h.value.data[1], se)
    ELSE h_maxima(image, 1, se)

local_minima(image, se) ==
    IF IsFloating(image.dtype)
    THEN LET h == find_min_diff(image)
         IN IF h.raised THEN ValueError
            ELSE h_minima(image, h.value.data[1], se)
    ELSE h_minima(image, 1, se)

(***************************************************************************)
(* The same operations, statement by statement, on the arrays in memory.   *)
(* The heap is the sequence of the arrays allocated so far and a reference *)
(* is an index into it.  An arithmetic expression, a conversion and a      *)
(* reconstruction allocate a new array, which gets the next reference; an  *)
(* indexed assignment writes into the array its target refers to.  Every   *)
(* statement is an operator from the heap before it to the heap after it.  *)
(* calls lists the functions entered, in order.                            *)
(***************************************************************************)
NoRef == 0

Alloc(heap, a) == Append(heap, a)

\* the function returned the array at ref
Returned(heap, ref, trace) ==
    [heap |-> heap, raised |-> FALSE, ret |-> ref, calls |-> trace]

\* the function raised ValueError
Raised(heap, trace) ==
    [heap |-> heap, raised |-> TRUE, ret |-> NoRef, calls |-> trace]

\* the function entered first is put in front of what it called
Entered(name, e) == [e EXCEPT !.calls = <<name>> \o @]

\* x + c in the type rt: a new array
AddConst(heap, x, rt, c) ==
    Alloc(heap, Array(rt, heap[x].shape,
              [i \in DOMAIN heap[x].data |-> Cast(rt, heap[x].data[i] + c)]))

\* x += c: the sum is stored in the array x refers to
AddConstInPlace(heap, x, rt, c) ==
    [heap EXCEPT ![x] = Array(rt, heap[x].shape,
              [i \in DOMAIN heap[x].data |-> Cast(rt, heap[x].data[i] + c)])]

\* target[x > bound] = value
SetWhereGreater(heap, target, x, bound, value) ==
    [heap EXCEPT ![target].data =
        [i \in DOMAIN @ |-> IF heap[x].data[i] > bound THEN value ELSE @[i]]]

\* target[x < bound] = value
SetWhereLess(heap, target, x, bound, value) ==
    [heap EXCEPT ![target].data =
        [i \in DOMAIN @ |-> IF heap[x].data[i] < bound THEN value ELSE @[i]]]

\* _add_constant_clip adding in place (result = img; result += const_value)
Exec_add_constant_clip_in_place(heap, img_ref, const_value) ==
    LET max_dtype == iinfo_max(heap[img_ref].dtype)
        min_dtype == iinfo_min(heap[img_ref].dtype)
        rt == result_type(heap[img_ref].dtype, const_value)
        result == img_ref
    IN IF IsFloating(heap[img_ref].dtype)
       THEN Raised(heap, <<>>)
       ELSE IF const_value > (max_dtype - min_dtype)
       THEN Raised(heap, <<>>)
       ELSE Returned(
                SetWhereGreater(
                    AddConstInPlace(heap, img_ref, rt, const_value),
                    result, img_ref, max_dtype - const_value, max_dtype),
                result, <<>>)

\* result = img + const_value; result[img > max_dtype - const_value] =
\* max_dtype; return(result)
Exec_add_constant_clip(heap, img_ref, const_value) ==
    LET max_dtype == iinfo_max(heap[img_ref].dtype)
        min_dtype == iinfo_min(heap[img_ref].dtype)
        rt == result_type(heap[img_ref].dtype, const_value)
        result == Len(heap) + 1
    IN IF IsFloating(heap[img_ref].dtype)
       THEN Raised(heap, <<>>)
       ELSE IF const_value > (max_dtype - min_dtype)
       THEN Raised(heap, <<>>)
       ELSE Returned(
                SetWhereGreater(
                    AddConst(heap, img_ref, rt, const_value),
                    result, img_ref, max_dtype - const_value, max_dtype),
                result, <<>>)

\* result = img - const_value; result[img < const_value + min_dtype] =
\* min_dtype; return(result)
Exec_subtract_constant_clip(heap, img_ref, const_value) ==
    LET max_dtype == iinfo_max(heap[img_ref].dtype)
        min_dtype == iinfo_min(heap[img_ref].dtype)
        rt == result_type(heap[img_ref].dtype, const_value)
        result == Len(heap) + 1
    IN IF IsFloating(heap[img_ref].dtype)
       THEN Raised(heap, <<>>)
       ELSE IF const_value > (max_dtype - min_dtype)
       THEN Raised(heap, <<>>)
       ELSE Returned(
                SetWhereLess(
                    AddConst(heap, img_ref, rt, 0 - const_value),
                    result, img_ref, const_value + min_dtype, min_dtype),
                result, <<>>)

\* x.flatten(): a new one-dimensional array
Flatten(heap, x) ==
    Alloc(heap, Array(heap[x].dtype, <<1, Len(heap[x].data)>>, heap[x].data))

\* np.unique(x): a new array of the distinct values, ascending
Unique(heap, x) ==
    Alloc(heap, Array(heap[x].dtype,
              <<1, Cardinality({heap[x].data[i] : i \in DOMAIN heap[x].data})>>,
              SortedSeq({heap[x].data[i] : i \in DOMAIN heap[x].data})))

\* x.sort(): the array x refers to is sorted in place
SortInPlace(heap, x) ==
    [heap EXCEPT ![x].data = SortedSeq({@[i] : i \in DOMAIN @})]

\* x[1:] - x[:-1]: a new array
Differences(heap, x) ==
    Alloc(heap, Array(heap[x].dtype, <<1, Len(heap[x].data) - 1>>,
              [k \in 1..(Len(heap[x].data) - 1) |->
                  Cast(heap[x].dtype, heap[x].data[k + 1] - heap[x].data[k])]))

\* np.min(x): a scalar
Minimum(heap, x) ==
    Alloc(heap, Scalar(heap[x].dtype,
              SetMin({heap[x].data[k] : k \in DOMAIN heap[x].data})))

\* the result of np.min, which raises ValueError on an array of no elements
MinimumOrError(heap, x) ==
    IF heap[x].shape[2] = 0
    THEN Raised(heap, <<>>)
    ELSE Returned(Minimum(heap, x), Len(heap) + 1, <<>>)

\* img_vec = np.unique(img.flatten()); img_vec.sort();
\* min_diff = np.min(img_vec[1:] - img_vec[:-1]); return min_diff
Exec_find_min_diff(heap, img_ref) ==
    LET flat == Len(heap) + 1
        img_vec == Len(heap) + 2
        diffs == Len(heap) + 3
    IN MinimumOrError(
           Differences(
               SortInPlace(Unique(Flatten(heap, img_ref), flat), img_vec),
               img_vec),
           diffs)

\* reconstruction(seed, mask, method, selem): a new array
Reconstruct(heap, seed, mask, method, se) ==
    Alloc(heap, reconstruction(heap[seed], heap[mask], method, se))

\* x - y: a new array
Subtract(heap, x, y) == Alloc(heap, ArraySub(heap[x], heap[y]))

\* np.zeros(x.shape): a new array of floating-point zeros
Zeros(heap, x) ==
    Alloc(heap, Array(Float64, heap[x].shape,
              [i \in DOMAIN heap[x].data |-> 0]))

\* target[residue >= h - 10*resolution] = 1, the resolution being that of
\* the type of the image
SetOneWhereResidue(heap, target, residue, h, dt) ==
    [heap EXCEPT ![target].data =
        [i \in DOMAIN @ |->
            IF IF IsFloating(dt)
               THEN heap[residue].data[i] > h - 1
               ELSE heap[residue].data[i] >= h - 10 * resolution
            THEN 1 ELSE @[i]]]

\* x.astype(dt): a new array
AsType(heap, x, dt) == Alloc(heap, Array(dt, heap[x].shape, heap[x].data))

\* rec_img = reconstruction(shifted_img, img, ...); residue_img = img -
\* rec_img (rec_img - img in h_minima); result_img = np.zeros(img.shape);
\* result_img[residue_img >= h - 10*resolution] = 1;
\* return result_img.astype(np.uint8)
Exec_residue_mask(heap, img_ref, shifted_img, h, method, se, trace) ==
    LET rec_img == Len(heap) + 1
        residue_img == Len(heap) + 2
        result_img == Len(heap) + 3
        returned == Len(heap) + 4
    IN Returned(
           AsType(
               SetOneWhereResidue(
                   Zeros(
                       IF method = "dilation"
                       THEN Subtract(
                                Reconstruct(heap, shifted_img, img_ref,
                                            method, se),
                                img_ref, rec_img)
                       ELSE Subtract(
                                Reconstruct(heap, shifted_img, img_ref,
                                            method, se),
                                rec_img, img_ref),
                       img_ref),
                   result_img, residue_img, h, heap[img_ref].dtype),
               result_img, UInt8),
           returned, trace \o <<"reconstruction">>)

\* the statements after the saturated shift: its error goes up to the
\* caller, its result is the seed of the reconstruction
AfterShift(shifted, img_ref, h, method, se, name) ==
    IF shifted.raised
    THEN Raised(shifted.heap, <<name>>)
    ELSE Exec_residue_mask(shifted.heap, img_ref, shifted.ret, h, method, se,
                           <<name>>)

\* h_maxima that checks the constant only after a reconstruction from the
\* unshifted image
AfterLateShift(shifted, img_ref, h, se) ==
    IF shifted.raised
    THEN Raised(shifted.heap, <<"reconstruction", "_subtract_constant_clip">>)
    ELSE Exec_residue_mask(shifted.heap, img_ref, shifted.ret, h, "dilation",
                           se, <<"reconstruction", "_subtract_constant_clip">>)

Exec_h_maxima_late_check(heap, img_ref, h, se) ==
    AfterLateShift(
        Exec_subtract_constant_clip(
            Reconstruct(heap, img_ref, img_ref, "dilation", se), img_ref, h),
        img_ref, h, se)

Exec_h_maxima(heap, img_ref, h, se) ==
    IF IsFloating(heap[img_ref].dtype)
    THEN Exec_residue_mask(AddConst(heap, img_ref, Float64, 0 - h), img_ref,
                           Len(heap) + 1, h, "dilation", se, <<>>)
    ELSE AfterShift(Exec_subtract_constant_clip(heap, img_ref, h),
                    img_ref, h, "dilation", se, "_subtract_constant_clip")

Exec_h_minima(heap, img_ref, h, se) ==
    IF IsFloating(heap[img_ref].dtype)
    THEN Exec_residue_mask(AddConst(heap, img_ref, Float64, h), img_ref,
                           Len(heap) + 1, h, "erosion", se, <<>>)
    ELSE AfterShift(Exec_add_constant_clip(heap, img_ref, h),
                    img_ref, h, "erosion", se, "_add_constant_clip")

\* h_maxima / h_minima with the height find_min_diff returned, whose error
\* goes up to the caller
WithMinDiff(d, img_ref, method, se) ==
    IF d.raised
    THEN Raised(d.heap, <<"find_min_diff">>)
    ELSE Entered("find_min_diff",
             IF method = "dilation"
             THEN Entered("h_maxima",
                      Exec_h_maxima(d.heap, img_ref, d.heap[d.ret].data[1], se))
             ELSE Entered("h_minima",
                      Exec_h_minima(d.heap, img_ref, d.heap[d.ret].data[1], se)))

Exec_local_maxima(heap, img_ref, se) ==
    IF IsFloating(heap[img_ref].dtype)
    THEN WithMinDiff(Exec_find_min_diff(heap, img_ref), img_ref, "dilation",
                     se)
    ELSE Entered("h_maxima", Exec_h_maxima(heap, img_ref, 1, se))

Exec_local_minima(heap, img_ref, se) ==
    IF IsFloating(heap[img_ref].dtype)
    THEN WithMinDiff(Exec_find_min_diff(heap, img_ref), img_ref, "erosion",
                     se)
    ELSE Entered("h_minima", Exec_h_minima(heap, img_ref, 1, se))

(***************************************************************************)
(* The caller: it holds an image and calls the operations of the module on *)
(* it, one at a time.  op, arg and selem are the operation last called and *)
(* its arguments, img is the image as it was passed and out is what the    *)
(* operation handed back.  mem is the memory after the call: the caller's  *)
(* array is the first one in it, ret refers to the array returned (NoRef   *)
(* when none was), calls lists the functions the operation entered.        *)
(***************************************************************************)
InputRef == 1

DTypes == {DType(TRUE, Bits), DType(FALSE, Bits)}

\* one-row images and the 2x2 square
Shapes == {<<1, NCols>>, <<2, 2>>}

Images ==
    UNION {{Array(dt, sh, d) :
                d \in [1..NPixels(sh) -> iinfo_min(dt)..iinfo_max(dt)]} :
           dt \in DTypes, sh \in Shapes}

\* the default neighbourhood (8-connectivity) and 4-connectivity
Selems == {None, Selem(Cross3)}

\* the highest sample, in units, of the enumerated floating-point images
FloatMax == 2

FloatImages ==
    UNION {{Array(Float64, sh, d) : d \in [1..NPixels(sh) -> 0..FloatMax]} :
           sh \in Shapes}

\* The image of the example in the documentation of h_maxima: w = 10,
\* x, y = np.mgrid[0:w, 0:w], f = 20 - 0.2*((x - w/2)**2 + (y - w/2)**2),
\* four 2x2 squares set to 40, 60, 80, 100, then f.astype(np.int), which
\* drops the fraction (rounds towards zero).
w == 10

\* trunc(n / 5)
TruncFifth(n) == IF n >= 0 THEN n \div 5 ELSE 0 - ((0 - n) \div 5)

\* f[x, y] after the assignments and the conversion; 20 - 0.2 * d is
\* (100 - d) / 5
f(x, y) ==
    LET d == (x - w \div 2) * (x - w \div 2) + (y - w \div 2) * (y - w \div 2)
    IN IF x \in 2..3 /\ y \in 2..3 THEN 40
       ELSE IF x \in 2..3 /\ y \in 7..8 THEN 60
       ELSE IF x \in 7..8 /\ y \in 2..3 THEN 80
       ELSE IF x \in 7..8 /\ y \in 7..8 THEN 100
       ELSE TruncFifth(100 - d)

\* the element types the example image is held in
ExampleDTypes == {DType(FALSE, 8), DType(TRUE, 8)}

ExampleImages ==
    {Array(dt, <<w, w>>,
           [i \in 1..(w * w) |->
               f(RowOf(i, <<w, w>>) - 1, ColOf(i, <<w, w>>) - 1)]) :
        dt \in ExampleDTypes}

\* the constants added to and subtracted from the example image: up to its
\* highest value and to the limits of the type, and one too large
ExampleConsts(image) ==
    {0, 1, 10, 20, 30, 40, 50, 60, 80, 100, 120}
        \cup {iinfo_max(image.dtype),
              iinfo_max(image.dtype) - iinfo_min(image.dtype),
              iinfo_max(image.dtype) - iinfo_min(image.dtype) + 1}

\* the heights tried on the example image: that of the documentation, and
\* one too large
ExampleHeights(image) ==
    {40, iinfo_max(image.dtype) - iinfo_min(image.dtype) + 1}

\* the constants and heights passed: all the type allows, and one too large;
\* with a floating-point image, up to one above the span of the samples
Consts(image) ==
    IF IsFloating(image.dtype) THEN 0..(FloatMax + 1)
    ELSE IF image.shape = <<w, w>> THEN ExampleConsts(image)
    ELSE 0..(iinfo_max(image.dtype) - iinfo_min(image.dtype) + 1)

\* the heights passed to h_maxima and h_minima
Heights(image) ==
    IF image.shape = <<w, w>> THEN ExampleHeights(image) ELSE Consts(image)

Init ==
    /\ img \in Images
    /\ selem = None
    /\ op = "none"
    /\ arg = 0
    /\ out = Return(NoArray)
    /\ mem = <<img>>
    /\ ret = NoRef
    /\ calls = <<>>

\* what the statements of the operation leave behind
Effect(e) ==
    /\ mem' = e.heap
    /\ ret' = e.ret
    /\ calls' = e.calls

Call_add_constant_clip ==
    /\ op = "none"
    /\ \E c \in Consts(img) :
          /\ op' = "_add_constant_clip"
          /\ arg' = c
          /\ out' = _add_constant_clip(img, c)
          /\ Effect(Exec_add_constant_clip(mem, InputRef, c))
    /\ UNCHANGED <<img, selem>>

Call_subtract_constant_clip ==
    /\ op = "none"
    /\ \E c \in Consts(img) :
          /\ op' = "_subtract_constant_clip"
          /\ arg' = c
          /\ out' = _subtract_constant_clip(img, c)
          /\ Effect(Exec_subtract_constant_clip(mem, InputRef, c))
    /\ UNCHANGED <<img, selem>>

\* the round trip: subtract the constant, then add it back to the result
Call_add_after_subtract ==
    /\ op = "none"
    /\ \E c \in Consts(img) :
          LET shifted == _subtract_constant_clip(img, c)
              e == Exec_subtract_constant_clip(mem, InputRef, c)
          IN /\ op' = "add_after_subtract"
             /\ arg' = c
             /\ out' = IF shifted.raised THEN shifted
                                         ELSE _add_constant_clip(shifted.value, c)
             /\ Effect(IF e.raised THEN e
                       ELSE Exec_add_constant_clip(e.heap, e.ret, c))
    /\ UNCHANGED <<img, selem>>

Call_find_min_diff ==
    /\ op = "none"
    /\ op' = "find_min_diff"
    /\ arg' = 0
    /\ out' = find_min_diff(img)
    /\ Effect(Exec_find_min_diff(mem, InputRef))
    /\ UNCHANGED <<img, selem>>

Call_h_maxima ==
    /\ op = "none"
    /\ \E h \in Heights(img), se \in Selems :
          /\ op' = "h_maxima"
          /\ arg' = h
          /\ selem' = se
          /\ out' = h_maxima(img, h, se)
          /\ Effect(Exec_h_maxima(mem, InputRef, h, se))
    /\ UNCHANGED img

Call_h_minima ==
    /\ op = "none"
    /\ \E h \in Heights(img), se \in Selems :
          /\ op' = "h_minima"
          /\ arg' = h
          /\ selem' = se
          /\ out' = h_minima(img, h, se)
          /\ Effect(Exec_h_minima(mem, InputRef, h, se))
    /\ UNCHANGED img

Call_local_maxima ==
    /\ op = "none"
    /\ \E se \in Selems :
          /\ op' = "local_maxima"
          /\ arg' = 0
          /\ selem' = se
          /\ out' = local_maxima(img, se)
          /\ Effect(Exec_local_maxima(mem, InputRef, se))
    /\ UNCHANGED img

Call_local_minima ==
    /\ op = "none"
    /\ \E se \in Selems :
          /\ op' = "local_minima"
          /\ arg' = 0
          /\ selem' = se
          /\ out' = local_minima(img, se)
          /\ Effect(Exec_local_minima(mem, InputRef, se))
    /\ UNCHANGED img

\* the caller drops the result and the temporaries, keeps its array as the
\* call left it, and is ready for the next call
Discard ==
    /\ op # "none"
    /\ op' = "none"
    /\ arg' = 0
    /\ selem' = None
    /\ out' = Return(NoArray)
    /\ img' = mem[InputRef]
    /\ mem' = <<mem[InputRef]>>
    /\ ret' = NoRef
    /\ calls' = <<>>

Next ==
    \/ Call_add_constant_clip
    \/ Call_subtract_constant_clip
    \/ Call_add_after_subtract
    \/ Call_find_min_diff
    \/ Call_h_maxima
    \/ Call_h_minima
    \/ Call_local_maxima
    \/ Call_local_minima
    \/ Discard

Spec == Init /\ [][Next]_vars

\* the caller holds an integer image or a floating-point image
InitAnyImage ==
    /\ img \in Images \cup FloatImages
    /\ selem = None
    /\ op = "none"
    /\ arg = 0
    /\ out = Return(NoArray)
    /\ mem = <<img>>
    /\ ret = NoRef
    /\ calls = <<>>

SpecAnyImage == InitAnyImage /\ [][Next]_vars

\* the caller holds the image of the documentation's example
InitExample ==
    /\ img \in ExampleImages
    /\ selem = None
    /\ op = "none"
    /\ arg = 0
    /\ out = Return(NoArray)
    /\ mem = <<img>>
    /\ ret = NoRef
    /\ calls = <<>>

SpecExample == InitExample /\ [][Next]_vars

(***************************************************************************)
(* Notions the properties are stated in: true-integer arithmetic, paths    *)
(* and plateaus.                                                           *)
(***************************************************************************)
TypeRange(dt) == iinfo_max(dt) - iinfo_min(dt)

Pixels == DOMAIN img.data

C3_ErrorIffConstantTooLarge ==
    (op \in {"_add_constant_clip", "_subtract_constant_clip"}) =>
        /\ out.raised <=> (arg > TypeRange(img.dtype))
        /\ out.raised => out.value = NoArray
        /\ ~out.raised => out.value.shape = img.shape

\* a call that raised, with the constant one above the range of the type
C3_Witness ==
    /\ op = "_subtract_constant_clip"
    /\ arg = TypeRange(img.dtype) + 1
    /\ out.raised

(***************************************************************************)
(* Connectivity under the neighbourhood of the call.                       *)
(***************************************************************************)
Adjacent(i, j) == IsNeighbour(i, j, img.shape, selem)

RECURSIVE Grow(_, _)
Grow(C, S) ==
    LET D == C \cup {j \in S : \E k \in C : Adjacent(k, j)}
    IN IF D = C THEN C ELSE Grow(D, S)

\* the pixels joined to pixel i by a path that stays in S
Component(i, S) == IF i \in S THEN Grow({i}, S) ELSE {}

\* the pixels of S joined to a pixel of Seeds by a path that stays in S
Flood(Seeds, S) == Grow(Seeds \cap S, S)

Levels == iinfo_min(img.dtype)..iinfo_max(img.dtype)

\* The reconstruction by dilation of the marker max(image - h, type_min)
\* under the image, at pixel i: the highest level t that some pixel whose
\* marker is >= t reaches along a path on which the image stays >= t.
RecByDilation(i, h) ==
    SetMax({t \in Levels :
        i \in Flood({q \in Pixels :
                        Max2(img.data[q] - h, iinfo_min(img.dtype)) >= t},
                    {x \in Pixels : img.data[x] >= t})})

\* The reconstruction by erosion of the marker min(image + h, type_max)
\* over the image, at pixel i: the lowest level t that some pixel whose
\* marker is <= t reaches along a path on which the image stays <= t.
RecByErosion(i, h) ==
    SetMin({t \in Levels :
        i \in Flood({q \in Pixels :
                        Min2(img.data[q] + h, iinfo_max(img.dtype)) <= t},
                    {x \in Pixels : img.data[x] <= t})})

IsBinaryMaskOfImage(res) ==
    /\ ~res.raised
    /\ res.value.shape = img.shape
    /\ DOMAIN res.value.data = Pixels
    /\ \A i \in Pixels : res.value.data[i] \in {0, 1}

Plateau(i) == Component(i, {x \in Pixels : img.data[x] = img.data[i]})

\* the pixels next to the plateau of i that are not in it
PlateauBorder(i) ==
    {j \in Pixels : \E k \in Plateau(i) : Adjacent(k, j)} \ Plateau(i)

\* pixel i lies on a local maximum: every pixel next to its plateau is
\* strictly lower
IsLocalMaximum(i) == \A j \in PlateauBorder(i) : img.data[j] < img.data[i]

\* some path from pixel i reaches a strictly higher pixel while all its
\* values stay above value(i) - h
ReachesHigherWithin(i, h) ==
    \E q \in Component(i, {x \in Pixels : img.data[x] > img.data[i] - h}) :
        img.data[q] > img.data[i]

\* pixel i lies on a local maximum of height >= h
IsHMaximum(i, h) == IsLocalMaximum(i) /\ ~ReachesHigherWithin(i, h)

\* C6: local_maxima marks a pixel with 1 if and only if the pixel belongs to
\* a plateau all of whose neighbouring pixels outside the plateau are
\* strictly lower, for every image of the element type.
C6_LocalMaximaArePlateauMaxima ==
    (op = "local_maxima") =>
        /\ IsBinaryMaskOfImage(out)
        /\ \A i \in Pixels : (out.value.data[i] = 1) <=> IsLocalMaximum(i)

\* What local_maxima does mark: the local maxima above the type's minimum.
C6_CodeMarksMaximaAboveTypeMin ==
    (op = "local_maxima") =>
        /\ IsBinaryMaskOfImage(out)
        /\ \A i \in Pixels :
              (out.value.data[i] = 1) <=>
                  (IsLocalMaximum(i) /\ img.data[i] > iinfo_min(img.dtype))

\* C7: for 1 <= h <= type_max - type_min, h_maxima marks exactly the pixels
\* of the local-maximum plateaus from which no path to a strictly higher
\* pixel keeps all its values above value - h; the plateau of the global
\* maximum is always marked.
C7_HMaximaArePathMaxima ==
    (op = "h_maxima" /\ 1 <= arg /\ arg <= TypeRange(img.dtype)) =>
        /\ IsBinaryMaskOfImage(out)
        /\ \A i \in Pixels : (out.value.data[i] = 1) <=> IsHMaximum(i, arg)
        /\ \A i \in Pixels :
              (\A j \in Pixels : img.data[j] <= img.data[i]) =>
                  out.value.data[i] = 1

\* What h_maxima does mark: the maxima of height >= h whose value less h is
\* still a value of the element type.
C7_CodeMarksUnclampedMaxima ==
    (op = "h_maxima" /\ 1 <= arg /\ arg <= TypeRange(img.dtype)) =>
        /\ IsBinaryMaskOfImage(out)
        /\ \A i \in Pixels :
              (out.value.data[i] = 1) <=>
                  (IsHMaximum(i, arg)
                      /\ img.data[i] - arg >= iinfo_min(img.dtype))

Negated(image) ==
    Array(image.dtype, image.shape,
          [i \in DOMAIN image.data |-> Cast(image.dtype, 0 - image.data[i])])

\* C9: for a signed image and 0 <= h <= type_max - type_min,
\* h_maxima(image, h) equals h_minima(-image, h) pixel for pixel.
C9_HMaximaIsHMinimaOfNegation ==
    (op = "h_maxima" /\ img.dtype.signed /\ arg <= TypeRange(img.dtype)) =>
        out = h_minima(Negated(img), arg, selem)

\* C10: for a signed image, local_minima(image) equals local_maxima(-image)
\* pixel for pixel.
C10_LocalMinimaIsLocalMaximaOfNegation ==
    (op = "local_minima" /\ img.dtype.signed) =>
        out = local_maxima(Negated(img), selem)

\* C9 as amended: for a signed image none of whose values is type_min (so
\* that -image is the true negation) or type_min + h, and
\* 0 <= h <= type_max - type_min, h_maxima(image, h) equals
\* h_minima(-image, h) pixel for pixel.
C9_Amended ==
    (/\ op = "h_maxima"
     /\ img.dtype.signed
     /\ arg <= TypeRange(img.dtype)
     /\ \A i \in Pixels :
           /\ img.data[i] # iinfo_min(img.dtype)
           /\ img.data[i] # iinfo_min(img.dtype) + arg) =>
        out = h_minima(Negated(img), arg, selem)

\* an h-maxima call with h >= 1 on a signed image holding neither type_min
\* nor type_min + h that marks one pixel and not another
C9_Witness ==
    /\ op = "h_maxima"
    /\ img.dtype.signed
    /\ arg >= 1
    /\ ~out.raised
    /\ \A i \in Pixels :
          /\ img.data[i] # iinfo_min(img.dtype)
          /\ img.data[i] # iinfo_min(img.dtype) + arg
    /\ \E i, j \in Pixels : out.value.data[i] = 1 /\ out.value.data[j] = 0

\* C10 as amended: for a signed image that holds neither type_min nor
\* type_max, local_minima(image) equals local_maxima(-image) pixel for pixel.
C10_Amended ==
    (/\ op = "local_minima"
     /\ img.dtype.signed
     /\ \A i \in Pixels :
           /\ img.data[i] # iinfo_min(img.dtype)
           /\ img.data[i] # iinfo_max(img.dtype)) =>
        out = local_maxima(Negated(img), selem)

\* a local-minima call on a signed image holding neither type_min nor
\* type_max that marks one pixel and not another
C10_Witness ==
    /\ op = "local_minima"
    /\ img.dtype.signed
    /\ ~out.raised
    /\ \A i \in Pixels :
          /\ img.data[i] # iinfo_min(img.dtype)
          /\ img.data[i] # iinfo_max(img.dtype)
    /\ \E i, j \in Pixels : out.value.data[i] = 1 /\ out.value.data[j] = 0

SampleValues == {img.data[i] : i \in Pixels}

\* the gaps between consecutive distinct sample values, in true numbers
Gaps ==
    {p[2] - p[1] :
        p \in {q \in SampleValues \X SampleValues :
                  /\ q[2] > q[1]
                  /\ ~\E y \in SampleValues : q[1] < y /\ y < q[2]}}

\* the smallest |a - b| over the pairs of distinct sample values
MinPairDiff ==
    SetMin({p[2] - p[1] :
               p \in {q \in SampleValues \X SampleValues : q[2] > q[1]}})

\* C12: for an image with at least 2 distinct sample values find_min_diff
\* returns the smallest gap between consecutive distinct values, a strictly
\* positive number equal to the smallest |a - b| over the pairs of distinct
\* values; for an image with fewer than 2 distinct values it raises an
\* error, and so do local_maxima and local_minima on such a floating-point
\* image, which return no mask.
C12_MinDiffIsSmallestGap ==
    /\ (op = "find_min_diff" /\ Cardinality(SampleValues) >= 2) =>
          /\ ~out.raised
          /\ out.value.data[1] = SetMin(Gaps)
          /\ out.value.data[1] = MinPairDiff
          /\ out.value.data[1] > 0
    /\ (op = "find_min_diff" /\ Cardinality(SampleValues) < 2) =>
          /\ out.raised
          /\ out.value = NoArray
    /\ (/\ op \in {"local_maxima", "local_minima"}
        /\ IsFloating(img.dtype)
        /\ Cardinality(SampleValues) < 2) =>
          /\ out.raised
          /\ out.value = NoArray

\* What find_min_diff does return: the smallest gap as long as every gap
\* is a value of the element type, which the gaps of an unsigned or of a
\* floating-point image always are; it raises on fewer than 2 distinct
\* values, and so do the local extrema of a floating-point image.
C12_CodeReturnsGapThatFits ==
    /\ (/\ op = "find_min_diff"
        /\ Cardinality(SampleValues) >= 2
        /\ \/ IsFloating(img.dtype)
           \/ \A g \in Gaps : g <= iinfo_max(img.dtype)) =>
          /\ ~out.raised
          /\ out.value.dtype = img.dtype
          /\ out.value.data[1] = SetMin(Gaps)
          /\ out.value.data[1] = MinPairDiff
          /\ out.value.data[1] > 0
    /\ (op = "find_min_diff" /\ Cardinality(SampleValues) < 2) =>
          /\ out.raised
          /\ out.value = NoArray
    /\ (/\ op \in {"local_maxima", "local_minima"}
        /\ IsFloating(img.dtype)) =>
          /\ out.raised <=> (Cardinality(SampleValues) < 2)
          /\ out.raised => out.value = NoArray

(***************************************************************************)
(* The example of the documentation of h_maxima.                           *)
(***************************************************************************)
\* the pixels the returned mask marks
MarkedPixels == {i \in Pixels : out.value.data[i] = 1}

\* the connected plateaus of marked pixels
MarkedPlateaus == {Component(i, MarkedPixels) : i \in MarkedPixels}

C14_ErrorBeforeReconstruction ==
    (/\ op \in {"h_maxima", "h_minima"}
     /\ ~IsFloating(img.dtype)
     /\ arg > TypeRange(img.dtype)) =>
        /\ out.raised
        /\ out.value = NoArray
        /\ ret = NoRef
        /\ calls = IF op = "h_maxima" THEN <<"_subtract_constant_clip">>
                                      ELSE <<"_add_constant_clip">>
        /\ \A k \in DOMAIN calls : calls[k] # "reconstruction"
        /\ mem = <<img>>

\* an h_maxima call with h one above the range of the type: it raised out
\* of the subtraction, and memory holds nothing but the caller's image
C14_Witness ==
    /\ op = "h_maxima"
    /\ arg = TypeRange(img.dtype) + 1
    /\ out.raised
    /\ calls = <<"_subtract_constant_clip">>
    /\ mem = <<img>>

\* C15: no operation changes an element of the caller's image, whether it
\* returns or raises, and the array returned is not the caller's array but
\* a new one, also when the constant is 0 and the two are equal.
C15_InputUntouchedResultNew ==
    (op # "none") =>
        /\ mem[InputRef] = img
        /\ out.raised => ret = NoRef
        /\ ~out.raised =>
              /\ ret \in (DOMAIN mem) \ {InputRef}
              /\ mem[ret] = out.value

\* an addition of 0: the array returned equals the image and is another
\* array than the caller's
C15_Witness ==
    /\ op = "_add_constant_clip"
    /\ arg = 0
    /\ ~out.raised
    /\ out.value = img
    /\ mem[ret] = img
    /\ ret # InputRef
    /\ mem[InputRef] = img

====
